---- MODULE Spec2Model ----
(***************************************************************************)
(* GridNode of the Savina GuidedSearch benchmark (GridNode.cc): a vertex   *)
(* of a 3D lattice with an atomic, write-once parent slot (parentInPath),  *)
(* a neighbor vector and three coordinates.                                *)
(*                                                                         *)
(* A node is an index 1..NumNodes; a GridNode* is a node index or NULL.    *)
(* setParent is one atomic compare_exchange_strong; a caller is modelled   *)
(* in two steps (entering the call, then the compare-exchange) so that     *)
(* several callers can be inside setParent at once.                        *)
(***************************************************************************)
EXTENDS Integers, Sequences, FiniteSets, TLC

\* ------------------------------------------------------------- bounds
NumNodes == 3
NumThreads == 2
MaxOps == 2
MaxClaims == 3
MaxAdds == 3
MaxDist == 1
MaxCoord == 4

\* nullptr
NULL == 0

Nodes == 1..NumNodes
Threads == 1..NumThreads

VARIABLES
    parentInPath,   \* [node -> node or NULL]: std::atomic<GridNode*> parentInPath
    neighbors,      \* [node -> sequence of nodes]: std::vector<GridNode*> neighbors
    coord,          \* [node -> [i, j, k]]: the members i, j, k
    pc,             \* [thread -> "idle" | "cas"]: position of each caller of setParent
    arg,            \* [thread -> [self, node, tmp, behind, overtaken]]: receiver, argument and
                    \* local tmp of the call; whether another thread was inside setParent on the
                    \* same node then (kept until the node is won); whether a call entered
                    \* later has won the node
    last,           \* the operation that completed last, with its result
    trueCalls,      \* [node -> the arguments of the setParent calls on it that returned true, in order]
    falseCalls,     \* [node -> number of setParent calls on it that returned false]
    written,        \* [node -> number of times parentInPath changed its value]
    addRets,        \* [node -> [node -> sequence of the results of addNeighbor]]
    firstCas,       \* [node -> the argument of the first compare-exchange made on it with a
                    \* non-null argument, or NULL]
    nOps,           \* number of calls made (to bound the runs)
    todo,           \* [thread -> index of the next node the worker claims] (stress scenario)
    frontier,       \* nodes claimed and not yet expanded (search driver)
    work            \* [thread -> [node, idx]]: node a worker expands, next neighbor index

vars == <<parentInPath, neighbors, coord, pc, arg, last, trueCalls, falseCalls,
          written, addRets, firstCas, nOps, todo, frontier, work>>

driverVars == <<todo, frontier, work>>

\* ------------------------------------------------------------- helpers
Range(s) == {s[x] : x \in 1..Len(s)}

Count(s, x) == Cardinality({y \in 1..Len(s) : s[y] = x})

NoArg == [self |-> NULL, node |-> NULL, tmp |-> NULL,
          behind |-> FALSE, overtaken |-> FALSE]

NoWork == [node |-> NULL, idx |-> 0]

NoLast == [op |-> "none", self |-> NULL, node |-> NULL, ret |-> FALSE,
           before |-> NULL, after |-> NULL,
           first |-> FALSE, overtaken |-> FALSE, listBefore |-> <<>>, listAfter |-> <<>>,
           sq |-> 0, root |-> 0]

\* ------------------------------------------------------------- setParent
\* A compare-exchange that stores unconditionally (the result still tells
\* whether the slot held the expected value).
CompareExchangeAlwaysStores(cur, expected, desired) ==
    [ok |-> cur = expected, val |-> desired, expected |-> cur]

\* A compare-exchange that reports the outcome and never stores.
CompareExchangeNeverStores(cur, expected, desired) ==
    [ok |-> cur = expected, val |-> cur, expected |-> cur]

\* A compare-exchange whose result is negated.
CompareExchangeNegated(cur, expected, desired) ==
    IF cur = expected
    THEN [ok |-> FALSE, val |-> desired, expected |-> expected]
    ELSE [ok |-> TRUE, val |-> cur, expected |-> cur]

\* A compare-exchange that also succeeds when the slot already holds desired.
CompareExchangeOrEqual(cur, expected, desired) ==
    IF cur = expected \/ cur = desired
    THEN [ok |-> TRUE, val |-> desired, expected |-> expected]
    ELSE [ok |-> FALSE, val |-> cur, expected |-> cur]

\* A compare-exchange that refuses to store a null pointer.
CompareExchangeRejectsNull(cur, expected, desired) ==
    IF cur = expected /\ desired # NULL
    THEN [ok |-> TRUE, val |-> desired, expected |-> expected]
    ELSE [ok |-> FALSE, val |-> cur, expected |-> cur]

\* std::atomic<T>::compare_exchange_strong(expected, desired) on a slot holding cur:
\* stores desired and returns true when cur = expected, otherwise loads cur into
\* expected and returns false. The strong form never fails spuriously.
CompareExchangeStrong(cur, expected, desired) ==
    IF cur = expected
    THEN [ok |-> TRUE, val |-> desired, expected |-> expected]
    ELSE [ok |-> FALSE, val |-> cur, expected |-> cur]

\* bool GridNode::setParent(GridNode* node), line 9: GridNode* tmp = nullptr
SetParentCall(t, self, node) ==
    /\ pc[t] = "idle"
    /\ pc' = [pc EXCEPT ![t] = "cas"]
    /\ arg' = [arg EXCEPT ![t] = [self |-> self, node |-> node, tmp |-> NULL,
                                  behind |-> /\ firstCas[self] = NULL
                                             /\ \E u \in Threads :
                                                   pc[u] = "cas" /\ arg[u].self = self,
                                  overtaken |-> FALSE]]
    /\ nOps' = nOps + 1
    /\ UNCHANGED <<parentInPath, neighbors, coord, last, trueCalls, falseCalls,
                   written, addRets, firstCas>>

\* No compare-exchange with a non-null argument has been made on self, and node
\* is not null: a compare-exchange with node is the first one.
IsFirst(self, node) == node # NULL /\ firstCas[self] = NULL

\* A setParent that exchanges on the argument's slot instead of the receiver's
\* (node->parentInPath, proposing this).
CompareExchangeOnArgument(self, node, tmp, overtaken) ==
    LET target == IF node # NULL THEN node ELSE self
        r == CompareExchangeStrong(parentInPath[target], tmp, self)
    IN /\ parentInPath' = [parentInPath EXCEPT ![target] = r.val]
       /\ written' = [written EXCEPT
                        ![target] = @ + (IF r.val # parentInPath[target] THEN 1 ELSE 0)]
       /\ trueCalls' = [trueCalls EXCEPT ![self] = IF r.ok THEN Append(@, node) ELSE @]
       /\ falseCalls' = [falseCalls EXCEPT ![self] = @ + (IF r.ok THEN 0 ELSE 1)]
       /\ last' = [NoLast EXCEPT !.op = "setParent", !.self = self, !.node = node,
                                 !.ret = r.ok, !.before = parentInPath[self],
                                 !.after = parentInPath'[self],
                                 !.first = IsFirst(self, node), !.overtaken = overtaken]
       /\ firstCas' = IF IsFirst(self, node) THEN [firstCas EXCEPT ![self] = node]
                      ELSE firstCas

\* A setParent that validates its argument: it refuses the receiver itself and
\* every node that is not in the receiver's neighbor vector.
CompareExchangeValidates(self, node, tmp, overtaken) ==
    LET valid == node # self /\ node \in Range(neighbors[self])
        r == IF valid THEN CompareExchangeStrong(parentInPath[self], tmp, node)
             ELSE [ok |-> FALSE, val |-> parentInPath[self],
                   expected |-> parentInPath[self]]
    IN /\ parentInPath' = [parentInPath EXCEPT ![self] = r.val]
       /\ written' = [written EXCEPT
                        ![self] = @ + (IF r.val # parentInPath[self] THEN 1 ELSE 0)]
       /\ trueCalls' = [trueCalls EXCEPT ![self] = IF r.ok THEN Append(@, node) ELSE @]
       /\ falseCalls' = [falseCalls EXCEPT ![self] = @ + (IF r.ok THEN 0 ELSE 1)]
       /\ last' = [NoLast EXCEPT !.op = "setParent", !.self = self, !.node = node,
                                 !.ret = r.ok, !.before = parentInPath[self],
                                 !.after = r.val,
                                 !.first = IsFirst(self, node), !.overtaken = overtaken]
       /\ firstCas' = IF IsFirst(self, node) THEN [firstCas EXCEPT ![self] = node]
                      ELSE firstCas

\* line 10: return parentInPath.compare_exchange_strong(tmp, node, relaxed), on
\* the receiver self with the local tmp; overtaken tells whether a call entered
\* later has made the first compare-exchange.
CompareExchange(self, node, tmp, overtaken) ==
    LET r == CompareExchangeStrong(parentInPath[self], tmp, node)
    IN /\ parentInPath' = [parentInPath EXCEPT ![self] = r.val]
       /\ written' = [written EXCEPT
                        ![self] = @ + (IF r.val # parentInPath[self] THEN 1 ELSE 0)]
       /\ trueCalls' = [trueCalls EXCEPT ![self] = IF r.ok THEN Append(@, node) ELSE @]
       /\ falseCalls' = [falseCalls EXCEPT ![self] = @ + (IF r.ok THEN 0 ELSE 1)]
       /\ last' = [NoLast EXCEPT !.op = "setParent", !.self = self, !.node = node,
                                 !.ret = r.ok, !.before = parentInPath[self],
                                 !.after = r.val,
                                 !.first = IsFirst(self, node), !.overtaken = overtaken]
       /\ firstCas' = IF IsFirst(self, node) THEN [firstCas EXCEPT ![self] = node]
                      ELSE firstCas

\* The callers' records when thread t makes its compare-exchange and returns. A
\* thread that is inside setParent on the same node and found nobody there when
\* it entered has entered before t: it is overtaken if t's compare-exchange is
\* the first one.
Leave(t) ==
    [u \in Threads |->
        IF u = t THEN NoArg
        ELSE IF IsFirst(arg[t].self, arg[t].node) /\ pc[u] = "cas" /\ arg[u].self = arg[t].self
             THEN [arg[u] EXCEPT !.overtaken = ~arg[u].behind, !.behind = FALSE]
             ELSE arg[u]]

\* A setParent that waits until the slot is unset before it exchanges.
SetParentCASWaits(t) ==
    /\ pc[t] = "cas"
    /\ parentInPath[arg[t].self] = NULL
    /\ CompareExchange(arg[t].self, arg[t].node, arg[t].tmp, arg[t].overtaken)
    /\ pc' = [pc EXCEPT ![t] = "idle"]
    /\ arg' = Leave(t)
    /\ UNCHANGED <<neighbors, coord, addRets, nOps>>

SetParentCAS(t) ==
    /\ pc[t] = "cas"
    /\ CompareExchange(arg[t].self, arg[t].node, arg[t].tmp, arg[t].overtaken)
    /\ pc' = [pc EXCEPT ![t] = "idle"]
    /\ arg' = Leave(t)
    /\ UNCHANGED <<neighbors, coord, addRets, nOps>>

\* setParent as one step, lines 8-11: its only access to shared memory is the
\* compare-exchange.
SetParent(self, node) ==
    /\ CompareExchange(self, node, NULL, FALSE)
    /\ nOps' = nOps + 1
    /\ UNCHANGED <<neighbors, coord, pc, arg, addRets>>

\* ------------------------------------------------------------- addNeighbor
\* std::find(first, last, value): the index of the first element equal to value
\* at or after idx, or Len(list) + 1 (the end iterator) when there is none.
RECURSIVE Find(_, _, _)
Find(list, idx, value) ==
    IF idx > Len(list) THEN Len(list) + 1
    ELSE IF list[idx] = value THEN idx
    ELSE Find(list, idx + 1, value)

\* addNeighbor without the test node == this
AddNeighborNoSelfTest(self, list, node) ==
    IF Find(list, 1, node) = Len(list) + 1
    THEN [ret |-> TRUE, list |-> Append(list, node)]
    ELSE [ret |-> FALSE, list |-> list]

\* addNeighbor without the search for the node in the vector
AddNeighborNoFind(self, list, node) ==
    IF node = self
    THEN [ret |-> FALSE, list |-> list]
    ELSE [ret |-> TRUE, list |-> Append(list, node)]

\* addNeighbor that reports a duplicate as added
AddNeighborAlwaysTrue(self, list, node) ==
    IF node = self
    THEN [ret |-> FALSE, list |-> list]
    ELSE IF Find(list, 1, node) = Len(list) + 1
    THEN [ret |-> TRUE, list |-> Append(list, node)]
    ELSE [ret |-> TRUE, list |-> list]

\* addNeighbor that compares the node with the last element of the vector only
AddNeighborChecksBackOnly(self, list, node) ==
    IF node = self
    THEN [ret |-> FALSE, list |-> list]
    ELSE IF Len(list) = 0 \/ list[Len(list)] # node
    THEN [ret |-> TRUE, list |-> Append(list, node)]
    ELSE [ret |-> FALSE, list |-> list]

\* bool GridNode::addNeighbor(GridNode* node) on a receiver whose vector is list:
\* the result and the vector afterwards.
AddNeighborResult(self, list, node) ==
    IF node = self
    THEN [ret |-> FALSE, list |-> list]
    ELSE IF Find(list, 1, node) = Len(list) + 1
    THEN [ret |-> TRUE, list |-> Append(list, node)]
    ELSE [ret |-> FALSE, list |-> list]

\* addNeighbor that also enters the receiver in the argument's vector
AddNeighborSymmetric(self, node) ==
    /\ LET r == AddNeighborResult(self, neighbors[self], node)
       IN /\ neighbors' = [n \in DOMAIN neighbors |->
                              IF n = self THEN r.list
                              ELSE IF n = node /\ r.ret THEN Append(neighbors[n], self)
                              ELSE neighbors[n]]
          /\ addRets' = [addRets EXCEPT ![self][node] = Append(@, r.ret)]
          /\ last' = [NoLast EXCEPT !.op = "addNeighbor", !.self = self, !.node = node,
                                    !.ret = r.ret, !.listBefore = neighbors[self],
                                    !.listAfter = r.list]
    /\ nOps' = nOps + 1
    /\ UNCHANGED <<parentInPath, coord, pc, arg, trueCalls, falseCalls, written,
                   firstCas>>

AddNeighbor(self, node) ==
    /\ LET r == AddNeighborResult(self, neighbors[self], node)
       IN /\ neighbors' = [neighbors EXCEPT ![self] = r.list]
          /\ addRets' = [addRets EXCEPT ![self][node] = Append(@, r.ret)]
          /\ last' = [NoLast EXCEPT !.op = "addNeighbor", !.self = self, !.node = node,
                                    !.ret = r.ret, !.listBefore = neighbors[self],
                                    !.listAfter = r.list]
    /\ nOps' = nOps + 1
    /\ UNCHANGED <<parentInPath, coord, pc, arg, trueCalls, falseCalls, written,
                   firstCas>>

\* ------------------------------------------------------------- distanceFrom
\* The largest r with r * r <= n
RECURSIVE ISqrtFrom(_, _)
ISqrtFrom(n, r) == IF (r + 1) * (r + 1) > n THEN r ELSE ISqrtFrom(n, r + 1)

\* distanceFrom without the k axis
DistanceFromNoK(a, b) ==
    LET iDiff == a.i - b.i
        jDiff == a.j - b.j
        sum == (iDiff * iDiff) + (jDiff * jDiff)
    IN [sq |-> sum, root |-> ISqrtFrom(sum, 0)]

\* distanceFrom that adds kDiff where it should add its square
DistanceFromUnsquaredK(a, b) ==
    LET iDiff == a.i - b.i
        jDiff == a.j - b.j
        kDiff == a.k - b.k
        sum == (iDiff * iDiff) + (jDiff * jDiff) + kDiff
    IN [sq |-> sum, root |-> ISqrtFrom(sum, 0)]

\* double GridNode::distanceFrom(const GridNode* node): the radicand handed to
\* sqrt and the integer part of its root.
DistanceFromResult(a, b) ==
    LET iDiff == a.i - b.i
        jDiff == a.j - b.j
        kDiff == a.k - b.k
        sum == (iDiff * iDiff) + (jDiff * jDiff) + (kDiff * kDiff)
    IN [sq |-> sum, root |-> ISqrtFrom(sum, 0)]

\* distanceFrom that subtracts into the receiver's own coordinate (i -= node->i)
DistanceFromStoresDiff(self, node) ==
    /\ LET r == DistanceFromResult(coord[self], coord[node])
       IN last' = [NoLast EXCEPT !.op = "distanceFrom", !.self = self, !.node = node,
                                 !.sq = r.sq, !.root = r.root]
    /\ coord' = [coord EXCEPT ![self].i = @ - coord[node].i]
    /\ nOps' = nOps + 1
    /\ UNCHANGED <<parentInPath, neighbors, pc, arg, trueCalls, falseCalls,
                   written, addRets, firstCas>>

DistanceFrom(self, node) ==
    /\ LET r == DistanceFromResult(coord[self], coord[node])
       IN last' = [NoLast EXCEPT !.op = "distanceFrom", !.self = self, !.node = node,
                                 !.sq = r.sq, !.root = r.root]
    /\ nOps' = nOps + 1
    /\ UNCHANGED <<parentInPath, neighbors, coord, pc, arg, trueCalls, falseCalls,
                   written, addRets, firstCas>>

\* ------------------------------------------------------------- construction
\* GridNode(id, i, j, k): no parent. The history variables start empty.
InitNodes(S) ==
    /\ parentInPath = [n \in S |-> NULL]
    /\ trueCalls = [n \in S |-> <<>>]
    /\ falseCalls = [n \in S |-> 0]
    /\ written = [n \in S |-> 0]
    /\ addRets = [n \in S |-> [m \in S |-> <<>>]]
    /\ firstCas = [n \in S |-> NULL]
    /\ pc = [t \in Threads |-> "idle"]
    /\ arg = [t \in Threads |-> NoArg]
    /\ last = NoLast
    /\ nOps = 0

NoDriver ==
    /\ todo = [t \in Threads |-> 0]
    /\ frontier = {}
    /\ work = [t \in Threads |-> NoWork]

\* Coordinates given to the constructors: node n at (n - 1, 0, 0)
LineLayout == [n \in Nodes |-> [i |-> n - 1, j |-> 0, k |-> 0]]

\* Neighbor vectors built before the search along the line: on node n,
\* addNeighbor is called with n - 1 and then with n + 1, where they exist
LineNeighbors ==
    [n \in Nodes |->
        LET low == IF n > 1 THEN AddNeighborResult(n, <<>>, n - 1).list ELSE <<>>
        IN IF n < NumNodes THEN AddNeighborResult(n, low, n + 1).list ELSE low]

\* All nodes at (1, 2, 3)
PointLayout == [n \in Nodes |-> [i |-> 1, j |-> 2, k |-> 3]]

\* Threads are interchangeable: a new call is made by the idle thread of the
\* smallest index.
FirstIdle(t) == pc[t] = "idle" /\ \A u \in Threads : pc[u] = "idle" => t <= u

\* ------------------------------------------------------------- Spec: any use of the nodes
\* Any thread calls setParent on any node with any argument (nullptr included),
\* and addNeighbor and distanceFrom are called on any nodes, in any order.
Init ==
    /\ InitNodes(Nodes)
    /\ neighbors = [n \in Nodes |-> <<>>]
    /\ coord \in {LineLayout, PointLayout}
    /\ NoDriver

Call ==
    \E t \in Threads, self \in Nodes, node \in Nodes \cup {NULL} :
        /\ nOps < MaxOps
        /\ FirstIdle(t)
        /\ SetParentCall(t, self, node)
        /\ UNCHANGED driverVars

CAS == \E t \in Threads : SetParentCAS(t) /\ UNCHANGED driverVars

Add ==
    \E self \in Nodes, node \in Nodes :
        /\ nOps < MaxOps
        /\ AddNeighbor(self, node)
        /\ UNCHANGED driverVars

Dist ==
    \E self \in Nodes, node \in Nodes :
        /\ nOps < MaxOps
        /\ DistanceFrom(self, node)
        /\ UNCHANGED driverVars

Next == Call \/ CAS \/ Add \/ Dist

Spec == Init /\ [][Next]_vars

\* ------------------------------------------------------------- SpecClaim: concurrent setParent
\* The search phase seen from the nodes: threads call setParent concurrently on
\* the nodes of Claimed, offering any node or nullptr as the parent.
Claimed == {1, 2}

InitClaim ==
    /\ InitNodes(Nodes)
    /\ neighbors = [n \in Nodes |-> <<>>]
    /\ coord = LineLayout
    /\ NoDriver

ClaimCall ==
    \E t \in Threads, self \in Claimed, node \in Nodes \cup {NULL} :
        /\ nOps < MaxClaims
        /\ FirstIdle(t)
        /\ SetParentCall(t, self, node)
        /\ UNCHANGED driverVars

ClaimCAS == \E t \in Threads : SetParentCAS(t) /\ UNCHANGED driverVars

NextClaim == ClaimCall \/ ClaimCAS

SpecClaim == InitClaim /\ [][NextClaim]_vars

\* ------------------------------------------------------------- SpecArgs: the arguments of setParent
\* Neighbor vectors are built along the line; then setParent is called, one call
\* at a time, on any node with any argument (nullptr, the receiver itself,
\* neighbors and other nodes).
InitArgs ==
    /\ InitNodes(Nodes)
    /\ neighbors = LineNeighbors
    /\ coord = LineLayout
    /\ NoDriver

ArgsCall ==
    \E self \in Nodes, node \in Nodes \cup {NULL} :
        /\ nOps < MaxClaims
        /\ SetParent(self, node)
        /\ UNCHANGED driverVars

NextArgs == ArgsCall

SpecArgs == InitArgs /\ [][NextArgs]_vars

\* ------------------------------------------------------------- SpecBuild: graph construction
\* The single-threaded construction phase: addNeighbor calls only.
InitBuild ==
    /\ InitNodes(Nodes)
    /\ neighbors = [n \in Nodes |-> <<>>]
    /\ coord = LineLayout
    /\ NoDriver

BuildAdd ==
    \E self \in Nodes, node \in Nodes :
        /\ nOps < MaxAdds
        /\ AddNeighbor(self, node)
        /\ UNCHANGED driverVars

NextBuild == BuildAdd

SpecBuild == InitBuild /\ [][NextBuild]_vars

\* ------------------------------------------------------------- SpecDist: distances
\* Two nodes constructed at any coordinates of 0..MaxCoord; distanceFrom is
\* called on them.
Pair == {1, 2}

Triples == [i : 0..MaxCoord, j : 0..MaxCoord, k : 0..MaxCoord]

InitDist ==
    /\ InitNodes(Pair)
    /\ neighbors = [n \in Pair |-> <<>>]
    /\ coord \in [Pair -> Triples]
    /\ NoDriver

DistCall ==
    \E self \in Pair, node \in Pair :
        /\ nOps < MaxDist
        /\ DistanceFrom(self, node)
        /\ UNCHANGED driverVars

NextDist == DistCall

SpecDist == InitDist /\ [][NextDist]_vars

\* ------------------------------------------------------------- SpecStress: the stress scenario
\* Every worker calls setParent once on every node, in the order of the node
\* container, each with a candidate of its own: worker t proposes the node t.
WorkerCand(t) == t

InitStress ==
    /\ InitNodes(Nodes)
    /\ neighbors = [n \in Nodes |-> <<>>]
    /\ coord = LineLayout
    /\ todo = [t \in Threads |-> 1]
    /\ frontier = {}
    /\ work = [t \in Threads |-> NoWork]

StressCall ==
    \E t \in Threads :
        /\ todo[t] <= NumNodes
        /\ SetParentCall(t, todo[t], WorkerCand(t))
        /\ todo' = [todo EXCEPT ![t] = @ + 1]
        /\ UNCHANGED <<frontier, work>>

StressCAS == \E t \in Threads : SetParentCAS(t) /\ UNCHANGED driverVars

NextStress == StressCall \/ StressCAS

SpecStress == InitStress /\ [][NextStress]_vars

\* All workers have made and completed all their calls.
StressDone == \A t \in Threads : pc[t] = "idle" /\ todo[t] > NumNodes

\* ------------------------------------------------------------- SpecSearch: a search driver on a grid
\* A GridSide x GridSide x 1 grid; node n is at ((n - 1) \div GridSide, (n - 1) % GridSide, 0).
GridSide == 3

GridNodes == 1..(GridSide * GridSide)

GridCoord(n) == [i |-> (n - 1) \div GridSide, j |-> (n - 1) % GridSide, k |-> 0]

NodeAt(i, j) == i * GridSide + j + 1

Min(a, b) == IF a <= b THEN a ELSE b

Start == NodeAt(0, 0)

Goal == NodeAt(GridSide - 1, GridSide - 1)

\* The nodes offered to addNeighbor for node n, in order: the nodes at the
\* offsets 0 and 1 along i and j, clamped to the grid (so the node itself and
\* repetitions are among them).
Offered(n) ==
    LET c == GridCoord(n)
        at(di, dj) == NodeAt(Min(GridSide - 1, c.i + di), Min(GridSide - 1, c.j + dj))
    IN <<at(0, 0), at(0, 1), at(1, 0), at(1, 1)>>

\* The vector of node n after addNeighbor was called with the first len offered nodes.
RECURSIVE Built(_, _)
Built(n, len) ==
    IF len = 0 THEN <<>>
    ELSE AddNeighborResult(n, Built(n, len - 1), Offered(n)[len]).list

GridNeighbors(n) == Built(n, Len(Offered(n)))

InitSearch ==
    /\ InitNodes(GridNodes)
    /\ neighbors = [n \in GridNodes |-> GridNeighbors(n)]
    /\ coord = [n \in GridNodes |-> GridCoord(n)]
    /\ todo = [t \in Threads |-> 0]
    /\ frontier = {Start}
    /\ work = [t \in Threads |-> NoWork]

\* A worker without work takes a reached node to expand it (workers are
\* interchangeable: the one of the smallest index takes it).
Take ==
    \E t \in Threads, p \in frontier :
        /\ work[t].node = NULL
        /\ \A u \in Threads : work[u].node = NULL => t <= u
        /\ frontier' = frontier \ {p}
        /\ work' = IF Len(neighbors[p]) = 0 THEN work
                   ELSE [work EXCEPT ![t] = [node |-> p, idx |-> 1]]
        /\ UNCHANGED <<parentInPath, neighbors, coord, pc, arg, last, trueCalls,
                       falseCalls, written, addRets, firstCas, nOps, todo>>

\* The worker proposes the node it expands as the parent of the next neighbor;
\* the neighbor joins the frontier if the call returned true.
Expand ==
    \E t \in Threads :
        /\ work[t].node # NULL
        /\ LET p == work[t].node
               n == neighbors[p][work[t].idx]
           IN /\ SetParent(n, p)
              /\ frontier' = IF last'.ret THEN frontier \cup {n} ELSE frontier
              /\ work' = IF work[t].idx = Len(neighbors[p])
                         THEN [work EXCEPT ![t] = NoWork]
                         ELSE [work EXCEPT ![t].idx = @ + 1]
        /\ todo' = todo

NextSearch == Take \/ Expand

SpecSearch == InitSearch /\ [][NextSearch]_vars

\* No node is left to expand and no worker is expanding one.
SearchDone ==
    /\ frontier = {}
    /\ \A t \in Threads : work[t].node = NULL

\* The least number of hops from node n to the goal along the neighbor vectors.
RECURSIVE HopsToGoal(_)
HopsToGoal(n) ==
    IF n = Goal THEN 0
    ELSE LET next == Range(GridNeighbors(n))
             hops == {HopsToGoal(m) : m \in next}
         IN IF next = {} \/ hops = {-1} THEN -1
            ELSE 1 + CHOOSE h \in hops \ {-1} : \A g \in hops \ {-1} : h <= g

ShortestHops == HopsToGoal(Start)

\* The number of parent references followed from node n to the start, or -1 when
\* the start is not reached within fuel steps.
RECURSIVE ChainLen(_, _)
ChainLen(n, fuel) ==
    IF n = Start THEN 0
    ELSE IF fuel = 0 \/ parentInPath[n] = NULL THEN -1
    ELSE LET rest == ChainLen(parentInPath[n], fuel - 1)
         IN IF rest < 0 THEN -1 ELSE rest + 1

\* ------------------------------------------------------------- properties of setParent
NonNullWins(n) == {x \in 1..Len(trueCalls[n]) : trueCalls[n][x] # NULL}

\* C1: single winner. On every node, of the setParent calls with a non-null
\* argument at most one returns true; as soon as one call on the node has lost or
\* won, exactly one has won and the parent is its argument; a call that returns
\* false leaves the parent as it was.
SingleWinner ==
    /\ \A n \in Nodes :
        /\ Cardinality(NonNullWins(n)) <= 1
        /\ (falseCalls[n] > 0 \/ NonNullWins(n) # {} \/ parentInPath[n] # NULL) =>
              \E x \in NonNullWins(n) :
                  /\ NonNullWins(n) = {x}
                  /\ parentInPath[n] = trueCalls[n][x]
    /\ (last.op = "setParent" /\ ~last.ret) =>
          /\ last.after = last.before
          /\ last.before # NULL

\* Two calls raced for an unset node: the one that completed last had entered
\* setParent before the other one, and lost to its argument.
SingleWinnerWitness ==
    /\ last.op = "setParent"
    /\ last.overtaken
    /\ ~last.ret
    /\ last.node # NULL
    /\ parentInPath[last.self] # last.node
    /\ falseCalls[last.self] = 1

\* C2: write-once parent. No step of any operation changes a parent slot that is set.
WriteOnce ==
    [][\A n \in Nodes : parentInPath[n] # NULL => parentInPath'[n] = parentInPath[n]]_vars

\* A set parent survived a later setParent with another argument.
WriteOnceWitness ==
    /\ last.op = "setParent"
    /\ last.before # NULL
    /\ last.node # NULL
    /\ last.node # last.before
    /\ parentInPath[last.self] = last.before

\* C3: setParent stores its argument if and only if the slot is unset at the
\* compare-exchange, and returns true exactly then.
ClaimContract ==
    last.op = "setParent" =>
        /\ last.ret <=> (last.before = NULL)
        /\ last.before = NULL => last.after = last.node
        /\ last.before # NULL => last.after = last.before
        /\ parentInPath[last.self] = last.after

\* A call found the slot unset, stored its non-null argument and returned true.
ClaimContractWitness ==
    /\ last.op = "setParent"
    /\ last.ret
    /\ last.before = NULL
    /\ last.node # NULL
    /\ parentInPath[last.self] = last.node

\* C4: idempotence under retry. A setParent on a node whose parent is set returns
\* false and leaves the parent, whatever the argument; the slot has changed once.
RetryIdempotent ==
    (last.op = "setParent" /\ last.before # NULL) =>
        /\ ~last.ret
        /\ last.after = last.before
        /\ parentInPath[last.self] = last.before
        /\ written[last.self] = 1

\* The winner called again with the same argument.
RetryIdempotentWitness ==
    /\ last.op = "setParent"
    /\ last.before # NULL
    /\ last.node = last.before
    /\ trueCalls[last.self] = <<last.node>>
    /\ falseCalls[last.self] >= 1

\* C5: stress scenario. When every worker has completed its call on every node,
\* every node has a parent, its slot has changed once, one call on it returned
\* true and all others false, and the parent is the candidate of that call and of
\* exactly one worker.
StressOutcome ==
    StressDone =>
        \A n \in Nodes :
            /\ parentInPath[n] # NULL
            /\ written[n] = 1
            /\ Len(trueCalls[n]) = 1
            /\ trueCalls[n][1] = parentInPath[n]
            /\ falseCalls[n] = NumThreads - 1
            /\ Cardinality({t \in Threads : WorkerCand(t) = parentInPath[n]}) = 1

\* The run is complete and two nodes went to different workers.
StressOutcomeWitness ==
    /\ StressDone
    /\ \E n, m \in Nodes : parentInPath[n] # parentInPath[m]

\* ------------------------------------------------------------- properties of addNeighbor
\* C6: addNeighbor appends the node if and only if it is not the receiver and not
\* in the vector, and returns true exactly when it appended.
AddContract ==
    last.op = "addNeighbor" =>
        LET accepted == last.node # last.self /\ last.node \notin Range(last.listBefore)
        IN /\ last.ret <=> accepted
           /\ accepted => last.listAfter = Append(last.listBefore, last.node)
           /\ ~accepted => last.listAfter = last.listBefore
           /\ neighbors[last.self] = last.listAfter

\* A node was appended behind another one.
AddContractWitness ==
    /\ last.op = "addNeighbor"
    /\ last.ret
    /\ Len(last.listBefore) = 1
    /\ neighbors[last.self] = <<last.listBefore[1], last.node>>

\* C7: no self-loop. No node is in its own vector, and addNeighbor(self) returns
\* false and leaves the vector.
NoSelfLoop ==
    /\ \A n \in Nodes : n \notin Range(neighbors[n])
    /\ (last.op = "addNeighbor" /\ last.node = last.self) =>
          /\ ~last.ret
          /\ last.listAfter = last.listBefore
          /\ neighbors[last.self] = last.listBefore

\* addNeighbor(self) on a node that has a neighbor.
NoSelfLoopWitness ==
    /\ last.op = "addNeighbor"
    /\ last.node = last.self
    /\ Len(neighbors[last.self]) >= 1

\* C8: no duplicates. Every vector holds each node at most once.
NoDuplicates ==
    \A n \in Nodes : \A x, y \in 1..Len(neighbors[n]) :
        x # y => neighbors[n][x] # neighbors[n][y]

\* A node with two neighbors was given the first of them again.
NoDuplicatesWitness ==
    /\ last.op = "addNeighbor"
    /\ Len(neighbors[last.self]) = 2
    /\ last.node = neighbors[last.self][1]
    /\ Len(addRets[last.self][last.node]) = 2

\* C9: addNeighbor is idempotent. For a node X other than the receiver the calls
\* addNeighbor(X) return true the first time and false every later time, the vector
\* holds X once, and a call that returns false leaves the vector as it was.
AddIdempotent ==
    /\ \A s \in Nodes : \A x \in Nodes \ {s} :
          LET rets == addRets[s][x]
          IN Len(rets) > 0 =>
                /\ rets[1] = TRUE
                /\ \A y \in 2..Len(rets) : rets[y] = FALSE
                /\ Count(neighbors[s], x) = 1
    /\ (last.op = "addNeighbor" /\ ~last.ret) =>
          /\ last.listAfter = last.listBefore
          /\ neighbors[last.self] = last.listBefore

\* addNeighbor(X), addNeighbor(Y), addNeighbor(X) on one node.
AddIdempotentWitness ==
    /\ last.op = "addNeighbor"
    /\ addRets[last.self][last.node] = <<TRUE, FALSE>>
    /\ Len(last.listBefore) = 2
    /\ last.listBefore[1] = last.node

\* ------------------------------------------------------------- properties of the search
\* Every parent is a node that has the child in its neighbor vector.
ParentsAreEdges ==
    \A n \in GridNodes :
        parentInPath[n] # NULL => n \in Range(neighbors[parentInPath[n]])

\* C10 as stated: after a full search run the parent references lead from the
\* goal to the start in exactly the shortest number of hops.
PathIsShortest ==
    SearchDone => ChainLen(Goal, Cardinality(GridNodes)) = ShortestHops

\* C10: path reconstruction. After a full search run the parent references lead
\* from the goal to the start along edges of the grid, in at least the shortest
\* number of hops and at most one hop per node other than the start.
PathReachesStart ==
    SearchDone =>
        LET hops == ChainLen(Goal, Cardinality(GridNodes))
        IN /\ hops >= ShortestHops
           /\ hops <= Cardinality(GridNodes) - 1
           /\ ParentsAreEdges

\* A full run whose path from the goal is longer than the shortest one.
PathReachesStartWitness ==
    /\ SearchDone
    /\ ShortestHops = GridSide - 1
    /\ ChainLen(Goal, Cardinality(GridNodes)) = 2 * (GridSide - 1)

\* ------------------------------------------------------------- progress of setParent
\* The setParent calls that have returned
Returned(S) ==
    LET count[T \in SUBSET S] ==
            IF T = {} THEN 0
            ELSE LET n == CHOOSE m \in T : TRUE
                 IN Len(trueCalls[n]) + falseCalls[n] + count[T \ {n}]
    IN count[S]

\* C11: non-blocking progress. A thread inside setParent can always take its
\* compare-exchange step, whatever the slot holds and wherever the other threads
\* are, and every call returns after one such step: the calls made are the calls
\* returned and the calls at their compare-exchange.
NonBlocking ==
    /\ \A t \in Threads : pc[t] = "cas" => ENABLED SetParentCAS(t)
    /\ nOps = Returned(Nodes) + Cardinality({t \in Threads : pc[t] = "cas"})

\* A call on a set node returned false while another thread, which had entered
\* setParent on that node before the winner did, has still not taken its step.
NonBlockingWitness ==
    /\ last.op = "setParent"
    /\ ~last.ret
    /\ \E t \in Threads :
          /\ pc[t] = "cas"
          /\ arg[t].self = last.self
          /\ arg[t].overtaken

\* ------------------------------------------------------------- frame of setParent
\* What the compare-exchange of a thread inside setParent would do now
ClaimOutcome(t) == CompareExchangeStrong(parentInPath[arg[t].self], arg[t].tmp, arg[t].node)

\* C12: frame of setParent. The step of a call on node n changes no coordinates,
\* no neighbor vector and no parent slot but n's, and it does not change what a
\* pending call on another node will do: calls on different nodes commute.
ClaimFrame ==
    [][\A t \in Threads :
          (pc[t] = "cas" /\ pc'[t] = "idle") =>
              /\ coord' = coord
              /\ neighbors' = neighbors
              /\ \A m \in Nodes \ {arg[t].self} : parentInPath'[m] = parentInPath[m]
              /\ \A u \in Threads \ {t} :
                    (pc[u] = "cas" /\ arg[u].self # arg[t].self) =>
                        ClaimOutcome(u)' = ClaimOutcome(u)]_vars

\* A call made its candidate the parent of a node while another thread was
\* inside setParent on that candidate, whose slot stayed unset.
ClaimFrameWitness ==
    /\ last.op = "setParent"
    /\ last.ret
    /\ last.node # NULL
    /\ last.node # last.self
    /\ parentInPath[last.self] = last.node
    /\ parentInPath[last.node] = NULL
    /\ \E u \in Threads : pc[u] = "cas" /\ arg[u].self = last.node

\* ------------------------------------------------------------- properties of distanceFrom
SumOfSquares(a, b) ==
    ((a.i - b.i) * (a.i - b.i)) + ((a.j - b.j) * (a.j - b.j)) + ((a.k - b.k) * (a.k - b.k))

\* C13: distanceFrom returns the Euclidean distance. The number whose root is
\* returned is the sum of the squared differences per axis, the integer part of
\* the root is the largest integer whose square does not exceed it, the distance
\* from (0,0,0) to (3,4,0) is 5 and the distance between equal coordinates is 0.
DistanceEuclid ==
    last.op = "distanceFrom" =>
        LET a == coord[last.self]
            b == coord[last.node]
        IN /\ last.sq = SumOfSquares(a, b)
           /\ last.root * last.root <= last.sq
           /\ last.sq < (last.root + 1) * (last.root + 1)
           /\ (a = [i |-> 0, j |-> 0, k |-> 0] /\ b = [i |-> 3, j |-> 4, k |-> 0]) =>
                 (last.root = 5 /\ last.sq = 25)
           /\ a = b => (last.root = 0 /\ last.sq = 0)

\* The distance from (0,0,0) to (3,4,0) was computed.
DistanceEuclidWitness ==
    /\ last.op = "distanceFrom"
    /\ coord[last.self] = [i |-> 0, j |-> 0, k |-> 0]
    /\ coord[last.node] = [i |-> 3, j |-> 4, k |-> 0]
    /\ last.root = 5

\* C14: distanceFrom is symmetric. The result of a call is the result of the
\* call with receiver and argument exchanged.
DistanceSymmetric ==
    last.op = "distanceFrom" =>
        LET back == DistanceFromResult(coord[last.node], coord[last.self])
        IN last.sq = back.sq /\ last.root = back.root

\* A distance between nodes whose differences have both signs.
DistanceSymmetricWitness ==
    /\ last.op = "distanceFrom"
    /\ coord[last.self].i < coord[last.node].i
    /\ coord[last.self].j > coord[last.node].j
    /\ coord[last.self].k > coord[last.node].k
    /\ last.root >= 1

\* C15: distanceFrom is pure. A call changes no coordinates, no neighbor vector
\* and no parent slot, and its result is the one the coordinates give, whatever
\* the parent slots hold and wherever the callers of setParent are.
DistancePure ==
    [][(nOps' = nOps + 1 /\ pc' = pc /\ last'.op = "distanceFrom") =>
          /\ coord' = coord
          /\ neighbors' = neighbors
          /\ parentInPath' = parentInPath
          /\ last'.sq = SumOfSquares(coord[last'.self], coord[last'.node])]_vars

\* A distance between two nodes was computed while a thread was inside
\* setParent on one of them.
DistancePureWitness ==
    /\ last.op = "distanceFrom"
    /\ last.self # last.node
    /\ last.sq > 0
    /\ \E t \in Threads : pc[t] = "cas" /\ arg[t].self = last.self

\* ------------------------------------------------------------- order of the setParent calls
\* C16: first writer wins. On every node the parent is the argument of the first
\* compare-exchange made with a non-null argument, that call is the one that
\* returned true, and every call with a non-null argument whose compare-exchange
\* came later returned false, whichever call was started first.
FirstWriterWins ==
    /\ \A n \in Nodes :
          /\ parentInPath[n] = firstCas[n]
          /\ {trueCalls[n][x] : x \in NonNullWins(n)} = {firstCas[n]} \ {NULL}
          /\ Cardinality(NonNullWins(n)) <= 1
    /\ (last.op = "setParent" /\ last.node # NULL) => (last.ret <=> last.first)

\* The call that was started first made its compare-exchange second, and lost.
FirstWriterWinsWitness ==
    /\ last.op = "setParent"
    /\ last.node # NULL
    /\ ~last.ret
    /\ last.overtaken
    /\ parentInPath[last.self] = firstCas[last.self]
    /\ parentInPath[last.self] # last.node

\* ------------------------------------------------------------- frame of addNeighbor
\* C17: frame of addNeighbor. An accepted call puts the argument at the end of
\* the receiver's vector and keeps the earlier entries in their order, a rejected
\* call leaves the vector; in both cases the vector of the argument and of every
\* other node, every parent slot, all coordinates and the setParent calls in
\* progress stay as they were.
AddFrame ==
    [][(nOps' = nOps + 1 /\ pc' = pc /\ last'.op = "addNeighbor") =>
          LET self == last'.self
              node == last'.node
              old  == neighbors[self]
              new  == neighbors'[self]
          IN /\ last'.ret =>
                   /\ Len(new) = Len(old) + 1
                   /\ new[Len(new)] = node
                   /\ SubSeq(new, 1, Len(old)) = old
             /\ ~last'.ret => new = old
             /\ \A n \in Nodes \ {self} : neighbors'[n] = neighbors[n]
             /\ parentInPath' = parentInPath
             /\ coord' = coord
             /\ arg' = arg]_vars

\* A node was accepted behind an earlier entry of the receiver's vector, and the
\* receiver is not in the vector of that node.
AddFrameWitness ==
    /\ last.op = "addNeighbor"
    /\ last.ret
    /\ Len(last.listBefore) = 1
    /\ neighbors[last.self] = Append(last.listBefore, last.node)
    /\ last.self \notin Range(neighbors[last.node])

\* ------------------------------------------------------------- arguments of setParent
\* C18: null argument. A setParent(nullptr) on a node whose parent is unset
\* returns true and leaves the slot unset, so the slot is set exactly when a call
\* with a non-null argument has returned true, every true result on a node but
\* the last one came from a null argument, and only among the calls with a
\* non-null argument is there at most one true result.
NullCandidate ==
    /\ (last.op = "setParent" /\ last.node = NULL /\ last.before = NULL) =>
          /\ last.ret
          /\ last.after = NULL
          /\ parentInPath[last.self] = NULL
          /\ written[last.self] = 0
    /\ \A n \in Nodes :
          /\ parentInPath[n] # NULL <=> NonNullWins(n) # {}
          /\ \A x \in 1..Len(trueCalls[n]) :
                x < Len(trueCalls[n]) => trueCalls[n][x] = NULL

\* Two calls on one node returned true: the first with a null argument, the
\* second, which completed last, with the node that is now the parent.
NullCandidateWitness ==
    /\ last.op = "setParent"
    /\ last.ret
    /\ last.node # NULL
    /\ Len(trueCalls[last.self]) = 2
    /\ trueCalls[last.self][1] = NULL
    /\ parentInPath[last.self] = last.node

\* C19: the argument is not validated. Whether a setParent with a non-null
\* argument succeeds depends on the slot alone: on an unset slot it returns true
\* and stores the argument also when the argument is the receiver itself or is
\* not in the receiver's neighbor vector, on a set slot it returns false.
CandidateNotValidated ==
    (last.op = "setParent" /\ last.node # NULL) =>
        /\ last.ret <=> (last.before = NULL)
        /\ last.ret => parentInPath[last.self] = last.node
        /\ (last.before = NULL /\ last.node = last.self) =>
              parentInPath[last.self] = last.self
        /\ (last.before = NULL /\ last.node \notin Range(neighbors[last.self])) =>
              parentInPath[last.self] = last.node

\* The parent chains have cycles: one node is its own parent, and two nodes that
\* are not neighbors are each other's parent.
CandidateNotValidatedWitness ==
    /\ last.op = "setParent"
    /\ last.ret
    /\ \E n \in Nodes : parentInPath[n] = n
    /\ \E a \in Nodes, b \in Nodes :
          /\ a # b
          /\ parentInPath[a] = b
          /\ parentInPath[b] = a
          /\ b \notin Range(neighbors[a])

====
